---- MODULE Spec2Model ----
(***************************************************************************)
(* AutoTagBot (src/main.js): one run of the action reads a version from a  *)
(* source file, looks for an existing tag matching the tag format, decides *)
(* the next revision, and creates a tag object, a tag reference and a      *)
(* release through the hosting API.                                        *)
(*                                                                         *)
(* Strings are sequences of one-character strings.  The placeholders       *)
(* "{version}" and "{revision}" of a tag format, and the group             *)
(* "(?<revision>[0-9]+)" of a tag pattern, are single elements of such a   *)
(* sequence.                                                               *)
(***************************************************************************)
EXTENDS Integers, Sequences, FiniteSets, TLC

\* ------------------------------------------------------------------ bounds

\* Longest tag list the repository starts with.
MaxTags == 2

\* Most commits a comparison returns.
MaxCommits == 2

\* Most runs of the action in one behaviour (SpecSeq).
MaxRuns == 3

\* per_page of listTags: at most this many tags are fetched.
PerPage == 100

\* ----------------------------------------------------------------- strings

Digits == {"0", "1", "2", "3", "4", "5", "6", "7", "8", "9"}

VersionToken == "{version}"

RevisionToken == "{revision}"

RevGroup == "(?<revision>[0-9]+)"

\* String.prototype.toLowerCase, one character.
LowerChar(c) ==
  CASE c = "V" -> "v"
    [] c = "R" -> "r"
    [] c = "C" -> "c"
    [] OTHER -> c

\* String.prototype.toLowerCase.
RECURSIVE ToLowerCase(_)
ToLowerCase(s) ==
  IF s = <<>> THEN <<>> ELSE <<LowerChar(Head(s))>> \o ToLowerCase(Tail(s))

\* The white space String.prototype.trim strips.
WhiteSpace == {" ", "\n"}

RECURSIVE TrimStart(_)
TrimStart(s) ==
  IF s # <<>> /\ Head(s) \in WhiteSpace THEN TrimStart(Tail(s)) ELSE s

RECURSIVE TrimEnd(_)
TrimEnd(s) ==
  IF s # <<>> /\ s[Len(s)] \in WhiteSpace
  THEN TrimEnd(SubSeq(s, 1, Len(s) - 1)) ELSE s

\* String.prototype.trim.
Trim(s) == TrimEnd(TrimStart(s))

\* String.prototype.replace(searchString, replacement): the first occurrence only.
RECURSIVE ReplaceFirst(_, _, _)
ReplaceFirst(s, tok, repl) ==
  IF s = <<>> THEN <<>>
  ELSE IF Head(s) = tok THEN repl \o Tail(s)
  ELSE <<Head(s)>> \o ReplaceFirst(Tail(s), tok, repl)

DigitValue(c) ==
  CASE c = "0" -> 0 [] c = "1" -> 1 [] c = "2" -> 2 [] c = "3" -> 3 [] c = "4" -> 4
    [] c = "5" -> 5 [] c = "6" -> 6 [] c = "7" -> 7 [] c = "8" -> 8 [] c = "9" -> 9

DigitChar(d) ==
  CASE d = 0 -> "0" [] d = 1 -> "1" [] d = 2 -> "2" [] d = 3 -> "3" [] d = 4 -> "4"
    [] d = 5 -> "5" [] d = 6 -> "6" [] d = 7 -> "7" [] d = 8 -> "8" [] d = 9 -> "9"

\* parseInt of a string of decimal digits.
RECURSIVE ParseInt(_)
ParseInt(s) ==
  IF s = <<>> THEN 0
  ELSE 10 * ParseInt(SubSeq(s, 1, Len(s) - 1)) + DigitValue(s[Len(s)])

\* Number.prototype.toString of a non-negative integer.
RECURSIVE NumToString(_)
NumToString(n) ==
  IF n < 10 THEN <<DigitChar(n)>>
  ELSE NumToString(n \div 10) \o <<DigitChar(n % 10)>>

\* ------------------------------------------------------------------ RegExp

\* One pattern atom against one character: the revision group's [0-9], the
\* wildcard, or a literal.
AtomMatches(a, c) ==
  IF a = RevGroup THEN c \in Digits
  ELSE IF a = "." THEN TRUE
  ELSE a = c

\* How many characters of s after position pos match atom a in a row.
RECURSIVE RunLength(_, _, _)
RunLength(a, s, pos) ==
  IF pos < Len(s) /\ AtomMatches(a, s[pos + 1]) THEN 1 + RunLength(a, s, pos + 1)
  ELSE 0

\* The backtracking matcher: the captures of the revision group of every way
\* pattern p matches s from position pos on, in the order the engine tries them
\* (greedy: the longest repetition first).
RECURSIVE MatchHere(_, _, _, _), TryLengths(_, _, _, _, _, _)
MatchHere(p, s, pos, cap) ==
  IF p = <<>> THEN <<cap>>
  ELSE IF p[1] = "^" THEN
    IF pos = 0 THEN MatchHere(Tail(p), s, pos, cap) ELSE <<>>
  ELSE IF p[1] = "$" THEN
    IF pos = Len(s) THEN MatchHere(Tail(p), s, pos, cap) ELSE <<>>
  ELSE
    LET quant == Len(p) >= 2 /\ p[2] = "+"
        isGroup == p[1] = RevGroup
        rest == IF quant THEN SubSeq(p, 3, Len(p)) ELSE Tail(p)
        run == RunLength(p[1], s, pos)
        maxk == IF quant \/ isGroup THEN run ELSE IF run >= 1 THEN 1 ELSE 0
    IN TryLengths(rest, s, pos, maxk, cap, isGroup)

TryLengths(rest, s, pos, k, cap, isGroup) ==
  IF k = 0 THEN <<>>
  ELSE MatchHere(rest, s, pos + k, IF isGroup THEN SubSeq(s, pos + 1, pos + k) ELSE cap)
       \o TryLengths(rest, s, pos, k - 1, cap, isGroup)

\* null: no match, no tag.
Null == [null |-> TRUE]

\* RegExp.prototype.exec from start position i on: the first match.  groups is
\* undefined (hasGroups = FALSE) when the pattern has no named group.
RECURSIVE ExecFrom(_, _, _)
ExecFrom(p, s, i) ==
  IF i > Len(s) THEN Null
  ELSE LET r == MatchHere(p, s, i, <<>>)
       IN IF r # <<>>
          THEN [null |-> FALSE,
                hasGroups |-> \E k \in DOMAIN p : p[k] = RevGroup,
                revision |-> r[1]]
          ELSE ExecFrom(p, s, i + 1)

RegExpExec(p, s) == ExecFrom(p, s, 0)

\* tagPattern of run(): the anchored tag format with the version and the
\* revision group substituted, lower-cased.
TagPattern(tagFormat, version) ==
  ToLowerCase(
    ReplaceFirst(
      ReplaceFirst(<<"^">> \o tagFormat \o <<"$">>, VersionToken, version),
      RevisionToken, <<RevGroup>>))

\* ------------------------------------------------------------------ inputs

V100 == <<"1", ".", "0", ".", "0">>

V101 == <<"1", ".", "0", ".", "1">>

\* A semantic version with build metadata.
V100Build == <<"1", ".", "0", ".", "0", "+", "1">>

ZeroVersions == {<<"0">>, <<"0", ".", "0">>, <<"0", ".", "0", ".", "0">>}

Versions == ZeroVersions \cup {V100, V100Build}

\* tag_format: the default "{version}", "v{version}", "V{version}",
\* "{version}-{revision}".
FmtVersion == <<VersionToken>>

FmtV == <<"v", VersionToken>>

FmtUpperV == <<"V", VersionToken>>

FmtRevision == <<VersionToken, "-", RevisionToken>>

TagFormats == {FmtVersion, FmtV, FmtUpperV, FmtRevision}

\* What reading source_file and applying version_pattern gives: no file, no
\* match, a match whose group "version" is missing or empty, or a version.
SourceFiles ==
  {[exists |-> FALSE, matches |-> FALSE, version |-> <<>>],
   [exists |-> TRUE, matches |-> FALSE, version |-> <<>>],
   [exists |-> TRUE, matches |-> TRUE, version |-> <<>>]}
  \cup {[exists |-> TRUE, matches |-> TRUE, version |-> v] : v \in Versions}

\* context.sha is missing.
NoSha == ""

ShaNames == <<"s1", "s2", "s3", "s4", "s5", "s6">>

\* The tags a repository may hold before the first run: name and commit SHA.
TagUniverse ==
  {[name |-> <<" ", "V", "1", ".", "0", ".", "0", " ">>, sha |-> "s1"],
   [name |-> <<"v", "1", ".", "0", ".", "0", "-", "r", "c">>, sha |-> "s2"],
   [name |-> <<"1", ".", "0", ".", "0", "-", "9">>, sha |-> "s1"],
   [name |-> <<"1", ".", "0", ".", "0">>, sha |-> "s2"],
   [name |-> <<"1", ".", "0", ".", "0", "-", "1">>, sha |-> "s2"],
   [name |-> <<"1", "-", "0", "-", "0">>, sha |-> "s2"]}

\* Tag names are unique in a repository.
InitialTagLists ==
  {l \in UNION {[1..n -> TagUniverse] : n \in 0..MaxTags} :
     \A i, j \in DOMAIN l : i # j => l[i].name # l[j].name}

\* The commits a comparison may return: message and author login (<<>>: no
\* author or no login).
CommitUniverse ==
  {[message |-> <<"a">>, login |-> <<>>],
   [message |-> <<"b">>, login |-> <<"b", "o", "b">>]}

CompareResults == UNION {[1..n -> CommitUniverse] : n \in 0..MaxCommits}

\* ------------------------------------------------------- pure parts of run

\* searchMatchingTag without the trim of the tag name.
RECURSIVE searchMatchingTagNoTrim(_, _)
searchMatchingTagNoTrim(tags, tagRegExp) ==
  IF tags = <<>> THEN Null
  ELSE LET tag == Head(tags)
           match == RegExpExec(tagRegExp, ToLowerCase(tag.name))
       IN IF match # Null
          THEN [null |-> FALSE, name |-> tag.name, sha |-> tag.sha, match |-> match]
          ELSE searchMatchingTagNoTrim(Tail(tags), tagRegExp)

\* searchMatchingTag: the first tag whose trimmed, lower-cased name the
\* pattern matches, or null.
RECURSIVE searchMatchingTag(_, _)
searchMatchingTag(tags, tagRegExp) ==
  IF tags = <<>> THEN Null
  ELSE LET tag == Head(tags)
           match == RegExpExec(tagRegExp, ToLowerCase(Trim(tag.name)))
       IN IF match # Null
          THEN [null |-> FALSE, name |-> tag.name, sha |-> tag.sha, match |-> match]
          ELSE searchMatchingTag(Tail(tags), tagRegExp)

\* matchingTag && matchingTag.sha === context.sha
PointsToCurrentCommit(matchingTag, sha) ==
  matchingTag # Null /\ matchingTag.sha = sha

\* tagRevision without the increment.
TagRevisionNoIncrement(matchingTag) ==
  IF matchingTag # Null /\ matchingTag.match.hasGroups
  THEN ParseInt(matchingTag.match.revision)
  ELSE 1

\* tagRevision: the captured revision plus one when the match has groups, else 1.
TagRevision(matchingTag) ==
  IF matchingTag # Null /\ matchingTag.match.hasGroups
  THEN ParseInt(matchingTag.match.revision) + 1
  ELSE 1

\* tagName: the tag format with version and revision substituted.
TagName(tagFormat, version, tagRevision) ==
  ReplaceFirst(ReplaceFirst(tagFormat, VersionToken, version),
               RevisionToken, NumToString(tagRevision))

\* The desired-tag abort left out.
MatchesDesiredTagDropped(matchingTag, tagName) == FALSE

\* matchingTag && matchingTag.name === tagName
MatchesDesiredTag(matchingTag, tagName) ==
  matchingTag # Null /\ matchingTag.name = tagName

\* The missing-commit check left out.
ShaMissingUnchecked(sha) == FALSE

\* !context.sha
ShaMissing(sha) == sha = NoSha

\* changelogFrom taken from the matching tag instead of the first tag.
ChangelogFromMatchingTag(tags, matchingTag) ==
  IF matchingTag # Null THEN matchingTag.name
  ELSE IF Len(tags) >= 1 THEN tags[1].name ELSE <<>>

\* changelogFrom: the name of the first fetched tag, or null (<<>>).
ChangelogFrom(tags, matchingTag) ==
  IF Len(tags) >= 1 THEN tags[1].name ELSE <<>>

InitialTag ==
  <<"I", "n", "i", "t", "i", "a", "l", " ", "t", "a", "g">>

\* getTagMessage without the early return.
NoComparisonNever(from, to) == FALSE

\* getTagMessage returns before the comparison: !from || !to
NoComparison(from, to) == from = <<>> \/ to = NoSha

\* The loop of getTagMessage: "\n* <message>" and " (<login>)" per commit.
RECURSIVE AppendCommits(_, _)
AppendCommits(message, commits) ==
  IF commits = <<>> THEN message
  ELSE LET commit == Head(commits)
           line == <<"\n", "*", " ">> \o commit.message
           author == IF commit.login # <<>>
                     THEN <<" ", "(">> \o commit.login \o <<")">>
                     ELSE <<>>
       IN AppendCommits(message \o line \o author, Tail(commits))

\* getTagMessage after the comparison returned commits.
TagMessage(commits) ==
  IF Len(commits) < 1 THEN InitialTag
  ELSE Trim(AppendCommits(<<>>, commits))

\* ------------------------------------------------------------------- state

VARIABLES
  tagFormat,     \* input tag_format
  sourceFile,    \* what source_file and version_pattern give
  contextSha,    \* context.sha, NoSha when missing
  repoTags,      \* the repository's tags, most recent first: name, commit SHA
  tagObjects,    \* the tag objects created in the repository
  releases,      \* the releases created in the repository
  pc,            \* where run() is: the remote call it awaits, or "done"
  tags,          \* run(): the fetched tags
  matchingTag,   \* run(): the matching tag or null
  tagRevision,   \* run(): 0 until computed
  tagName,       \* run(): <<>> until computed
  tagMessage,    \* run(): <<>> until computed
  tag,           \* run(): createTag's response or null
  tagRef,        \* run(): createRef's response or null
  outputs,       \* core.setOutput: output name -> value
  failed,        \* core.setFailed: the error kind, "" when not failed
  calls,         \* the remote calls this run made, in order
  compared,      \* the comparison this run got: base, head, commits; or null
  runNo,         \* the number of this run
  history        \* the earlier runs: version, created revision (0: none)

vars ==
  <<tagFormat, sourceFile, contextSha, repoTags, tagObjects, releases, pc, tags,
    matchingTag, tagRevision, tagName, tagMessage, tag, tagRef, outputs, failed,
    calls, compared, runNo, history>>

inputVars == <<tagFormat, sourceFile, contextSha>>

remoteVars == <<repoTags, tagObjects, releases>>

localVars == <<tags, matchingTag, tagRevision, tagName, tagMessage, tag, tagRef>>

version == sourceFile.version

NoOutputs == [k \in {} |-> <<>>]

\* The locals, outputs and bookkeeping of a run that has not started.
FreshRun ==
  /\ pc = "start"
  /\ tags = <<>>
  /\ matchingTag = Null
  /\ tagRevision = 0
  /\ tagName = <<>>
  /\ tagMessage = <<>>
  /\ tag = Null
  /\ tagRef = Null
  /\ outputs = NoOutputs
  /\ failed = ""
  /\ calls = <<>>
  /\ compared = Null

Init ==
  /\ tagFormat \in TagFormats
  /\ sourceFile \in SourceFiles
  /\ contextSha \in {NoSha, "s1", "s2"}
  /\ repoTags \in InitialTagLists
  /\ tagObjects = {}
  /\ releases = {}
  /\ FreshRun
  /\ runNo = 1
  /\ history = <<>>

\* ----------------------------------------------------------------- actions

\* run() up to the listTags call: the inputs, the source file, the version,
\* the version output, the all-zeros abort.
Start ==
  /\ pc = "start"
  /\ UNCHANGED <<inputVars, remoteVars, localVars, compared, runNo, history>>
  /\ IF ~sourceFile.exists THEN
       /\ failed' = "MissingFileError"
       /\ pc' = "done"
       /\ UNCHANGED <<outputs, calls>>
     ELSE IF ~sourceFile.matches THEN
       /\ failed' = "PatternNotFoundError"
       /\ pc' = "done"
       /\ UNCHANGED <<outputs, calls>>
     ELSE IF version = <<>> THEN
       /\ failed' = "MissingCaptureGroupError"
       /\ pc' = "done"
       /\ UNCHANGED <<outputs, calls>>
     ELSE
       /\ outputs' = ("version" :> version)
       /\ failed' = failed
       /\ IF version \in ZeroVersions
          THEN pc' = "done" /\ calls' = calls
          ELSE pc' = "listTags" /\ calls' = Append(calls, "listTags")

\* listTags threw: getRepoTags rethrows, run() rejects, setFailed.
ListTagsFail ==
  /\ pc = "listTags"
  /\ failed' = "TagFetchError"
  /\ pc' = "done"
  /\ UNCHANGED <<inputVars, remoteVars, localVars, outputs, calls, compared, runNo,
                 history>>

\* listTags returned: the search, the two aborts, the revision and the name,
\* the missing-commit failure, and getTagMessage up to the comparison (or, with
\* no "from", past it to the createTag call).
ListTagsOk ==
  /\ pc = "listTags"
  /\ LET fetched == SubSeq(repoTags, 1, IF Len(repoTags) < PerPage
                                        THEN Len(repoTags) ELSE PerPage)
         found == searchMatchingTag(fetched, TagPattern(tagFormat, version))
         revision == TagRevision(found)
         name == TagName(tagFormat, version, revision)
         from == ChangelogFrom(fetched, found)
     IN /\ tags' = fetched
        /\ matchingTag' = found
        /\ UNCHANGED <<inputVars, remoteVars, tag, tagRef, outputs, runNo, history>>
        /\ IF PointsToCurrentCommit(found, contextSha) THEN
             /\ pc' = "done"
             /\ UNCHANGED <<tagRevision, tagName, tagMessage, failed, calls, compared>>
           ELSE
             /\ tagRevision' = revision
             /\ tagName' = name
             /\ IF MatchesDesiredTag(found, name) THEN
                  /\ pc' = "done"
                  /\ UNCHANGED <<tagMessage, failed, calls, compared>>
                ELSE IF ShaMissing(contextSha) THEN
                  /\ pc' = "done"
                  /\ failed' = "MissingCommitError"
                  /\ UNCHANGED <<tagMessage, calls, compared>>
                ELSE IF NoComparison(from, contextSha) THEN
                  /\ tagMessage' = InitialTag
                  /\ pc' = "createTag"
                  /\ calls' = Append(calls, "createTag")
                  /\ UNCHANGED <<failed, compared>>
                ELSE
                  /\ pc' = "compareCommits"
                  /\ calls' = Append(calls, "compareCommits")
                  /\ compared' = [null |-> FALSE, base |-> from, head |-> contextSha,
                                  commits |-> <<>>, returned |-> FALSE]
                  /\ UNCHANGED <<tagMessage, failed>>

\* compareCommits threw: getTagMessage rethrows, run() rejects, setFailed.
CompareFail ==
  /\ pc = "compareCommits"
  /\ failed' = "ChangelogError"
  /\ pc' = "done"
  /\ UNCHANGED <<inputVars, remoteVars, localVars, outputs, calls, compared, runNo,
                 history>>

\* compareCommits returned: the tag message, then the createTag call.
CompareOk ==
  /\ pc = "compareCommits"
  /\ \E commits \in CompareResults :
       /\ compared' = [compared EXCEPT !.commits = commits, !.returned = TRUE]
       /\ tagMessage' = TagMessage(commits)
  /\ pc' = "createTag"
  /\ calls' = Append(calls, "createTag")
  /\ UNCHANGED <<inputVars, remoteVars, tags, matchingTag, tagRevision, tagName, tag,
                 tagRef, outputs, failed, runNo, history>>

\* The tag object createTag creates for this run.
NewTagObject ==
  [tag |-> tagName,
   message |-> tagName \o <<"\n", "\n">> \o tagMessage,
   object |-> contextSha,
   type |-> "commit",
   sha |-> <<"tagobject", runNo>>]

CreateTagFail ==
  /\ pc = "createTag"
  /\ failed' = "TagCreationError"
  /\ pc' = "done"
  /\ UNCHANGED <<inputVars, remoteVars, localVars, outputs, calls, compared, runNo,
                 history>>

\* createTag returned: the tag object exists; then the createRef call.
CreateTagOk ==
  /\ pc = "createTag"
  /\ tagObjects' = tagObjects \cup {NewTagObject}
  /\ tag' = [null |-> FALSE, tag |-> NewTagObject.tag, sha |-> NewTagObject.sha]
  /\ pc' = "createRef"
  /\ calls' = Append(calls, "createRef")
  /\ UNCHANGED <<inputVars, repoTags, releases, tags, matchingTag, tagRevision,
                 tagName, tagMessage, tagRef, outputs, failed, compared, runNo,
                 history>>

\* A reference refs/tags/<name> exists already.
RefExists(name) == \E i \in DOMAIN repoTags : repoTags[i].name = name

\* createRef threw, and the tag object is deleted again.
CreateRefFailRollback ==
  /\ pc = "createRef"
  /\ failed' = "ReferenceCreationError"
  /\ pc' = "done"
  /\ tagObjects' = tagObjects \ {NewTagObject}
  /\ UNCHANGED <<inputVars, repoTags, releases, localVars, outputs, calls, compared,
                 runNo, history>>

\* createRef threw (it always does when the reference exists): run() rejects,
\* setFailed; the tag object stays.
CreateRefFail ==
  /\ pc = "createRef"
  /\ failed' = "ReferenceCreationError"
  /\ pc' = "done"
  /\ UNCHANGED <<inputVars, remoteVars, localVars, outputs, calls, compared, runNo,
                 history>>

\* createRef returned: the repository has the new tag, most recent first, on
\* the commit the tag object points to; then the createRelease call.
CreateRefOk ==
  /\ pc = "createRef"
  /\ ~RefExists(tag.tag)
  /\ repoTags' = <<[name |-> tag.tag, sha |-> contextSha]>> \o repoTags
  /\ tagRef' = [null |-> FALSE, ref |-> <<"refs/tags/">> \o tag.tag,
                url |-> <<"refurl", runNo>>]
  /\ pc' = "createRelease"
  /\ calls' = Append(calls, "createRelease")
  /\ UNCHANGED <<inputVars, tagObjects, releases, tags, matchingTag, tagRevision,
                 tagName, tagMessage, tag, outputs, failed, compared, runNo, history>>

CreateReleaseFail ==
  /\ pc = "createRelease"
  /\ failed' = "ReleaseCreationError"
  /\ pc' = "done"
  /\ UNCHANGED <<inputVars, remoteVars, localVars, outputs, calls, compared, runNo,
                 history>>

\* createRelease returned: the release exists; the five tag outputs.
CreateReleaseOk ==
  /\ pc = "createRelease"
  /\ releases' = releases \cup
       {[name |-> tagName, body |-> tagMessage, tag_name |-> tagName,
         url |-> <<"releaseurl", runNo>>]}
  /\ outputs' = outputs @@ ("tag_name" :> tagName) @@ ("tag_revision" :> tagRevision)
                        @@ ("tag_sha" :> tag.sha) @@ ("tag_uri" :> tagRef.url)
                        @@ ("release_uri" :> <<"releaseurl", runNo>>)
  /\ pc' = "done"
  /\ UNCHANGED <<inputVars, repoTags, tagObjects, localVars, failed, calls, compared,
                 runNo, history>>

Next ==
  \/ Start
  \/ ListTagsFail
  \/ ListTagsOk
  \/ CompareFail
  \/ CompareOk
  \/ CreateTagFail
  \/ CreateTagOk
  \/ CreateRefFail
  \/ CreateRefOk
  \/ CreateReleaseFail
  \/ CreateReleaseOk

\* One run of the action, from any inputs and any repository.
Spec == Init /\ [][Next]_vars

\* ------------------------------------------------------------ several runs

SameFreshRun ==
  /\ pc' = "start"
  /\ tags' = <<>>
  /\ matchingTag' = Null
  /\ tagRevision' = 0
  /\ tagName' = <<>>
  /\ tagMessage' = <<>>
  /\ tag' = Null
  /\ tagRef' = Null
  /\ outputs' = NoOutputs
  /\ failed' = ""
  /\ calls' = <<>>
  /\ compared' = Null

\* What a finished run leaves in the history: its version and the revision of
\* the tag it created (0: it created none).
RunRecord ==
  [version |-> version, revision |-> IF tagRef # Null THEN tagRevision ELSE 0]

\* The action runs again after a run that created a tag: the same inputs, the
\* same commit, the repository as the first run left it.
Rerun ==
  /\ pc = "done"
  /\ runNo = 1
  /\ tagRef # Null
  /\ SameFreshRun
  /\ runNo' = runNo + 1
  /\ history' = Append(history, RunRecord)
  /\ UNCHANGED <<inputVars, remoteVars>>

NextRerun == Next \/ Rerun

\* A run, and a second run with identical inputs after a run that created a tag.
SpecRerun == Init /\ [][NextRerun]_vars

SeqVersions == {V100, V101, V100Build}

InitSeq ==
  /\ tagFormat = FmtRevision
  /\ sourceFile \in {[exists |-> TRUE, matches |-> TRUE, version |-> v] :
                       v \in SeqVersions}
  /\ contextSha = ShaNames[1]
  /\ repoTags = <<>>
  /\ tagObjects = {}
  /\ releases = {}
  /\ FreshRun
  /\ runNo = 1
  /\ history = <<>>

\* The next push: a new commit, the version kept or changed, the repository as
\* the earlier runs left it.
NextCommit ==
  /\ pc = "done"
  /\ runNo < MaxRuns
  /\ SameFreshRun
  /\ runNo' = runNo + 1
  /\ history' = Append(history, RunRecord)
  /\ contextSha' = ShaNames[runNo + 1]
  /\ \E v \in SeqVersions : sourceFile' = [sourceFile EXCEPT !.version = v]
  /\ UNCHANGED <<tagFormat, remoteVars>>

\* createRef is refused because the reference exists.
CreateRefConflict == CreateRefFail /\ RefExists(tag.tag)

\* Runs whose remote calls fail only where the repository refuses them.
NextSeq ==
  \/ Start
  \/ ListTagsOk
  \/ CompareOk
  \/ CreateTagOk
  \/ CreateRefOk
  \/ CreateRefConflict
  \/ CreateReleaseOk
  \/ NextCommit

\* Runs with tag_format {version}-{revision}, each on a new commit, from an
\* empty repository.
SpecSeq == InitSeq /\ [][NextSeq]_vars

\* ------------------------------------------------------------------ claims

CreateCalls == {"createTag", "createRef", "createRelease"}

MadeCreateCall == \E i \in DOMAIN calls : calls[i] \in CreateCalls

TagOutputs == {"tag_name", "tag_revision", "tag_sha", "tag_uri", "release_uri"}

\* The run fetched the tags and searched them.
Searched == calls # <<>> /\ pc # "listTags" /\ failed # "TagFetchError"

\* The run created its tag (the reference exists), its release.
TagCreated == tagRef # Null

ReleaseCreated == \E r \in releases : r.url = <<"releaseurl", runNo>>

\* The language of a pattern without anchors, by the set of positions of s a
\* prefix of the pattern can end at: s is in the language when the whole
\* pattern can end at the end of s.
RECURSIVE EndPositions(_, _, _)
EndPositions(p, s, from) ==
  IF p = <<>> THEN from
  ELSE LET quant == Len(p) >= 2 /\ p[2] = "+"
           many == quant \/ p[1] = RevGroup
           rest == IF quant THEN SubSeq(p, 3, Len(p)) ELSE Tail(p)
           next == {k \in 1..Len(s) :
                      \E j \in from :
                        /\ j < k
                        /\ many \/ k = j + 1
                        /\ \A m \in (j + 1)..k : AtomMatches(p[1], s[m])}
       IN EndPositions(rest, s, next)

InLanguage(p, s) == Len(s) \in EndPositions(p, s, {0})

\* The tag format as a pattern: the version for {version}, rev (the decimal
\* group, or the digits of one revision) for {revision}, lower-cased.
FormatPattern(rev) ==
  ToLowerCase(ReplaceFirst(ReplaceFirst(tagFormat, VersionToken, version),
                           RevisionToken, rev))

\* The whole trimmed, lower-cased name is an instance of the tag format.
NameMatches(name) == InLanguage(FormatPattern(<<RevGroup>>), ToLowerCase(Trim(name)))

HasRevisionPlaceholder == \E i \in DOMAIN tagFormat : tagFormat[i] = RevisionToken

\* C1: when a run created a tag and the action runs again with the same inputs
\* on the same commit, the repository changed only by that tag (now first in
\* the tag list), the second run makes no create-tag-object, create-reference
\* or create-release call.
C1_SecondRunCreatesNothing == runNo = 2 => ~MadeCreateCall

\* The revision the claim C2 expects of the current run: 1 for the first run
\* and after a change of version, the previous revision plus one otherwise.
ExpectedSeqRevision ==
  IF history = <<>> \/ history[Len(history)].version # version
  THEN 1
  ELSE history[Len(history)].revision + 1

\* C2: with tag_format {version}-{revision}, over runs each on a new commit and
\* each seeing the tags of the earlier runs: a finished run has created the tag
\* with revision 1 when it is the first run or the version changed, and with
\* the previous revision plus one when the version is unchanged.
C2_RevisionSequence ==
  pc = "done" => RunRecord.revision = ExpectedSeqRevision

\* C3: in every run that resolved the revision: when a matching tag exists and
\* the tag format contains {revision}, the matched name is the tag format with
\* some revision N in it and the desired revision is N + 1; in every other
\* case the desired revision is 1.
C3_RevisionResolver ==
  tagRevision # 0 =>
    IF matchingTag # Null /\ HasRevisionPlaceholder
    THEN \E n \in 0..(tagRevision - 1) :
           /\ InLanguage(FormatPattern(matchingTag.match.revision),
                         ToLowerCase(Trim(matchingTag.name)))
           /\ ParseInt(matchingTag.match.revision) = n
           /\ matchingTag.match.revision # <<>>
           /\ tagRevision = n + 1
    ELSE tagRevision = 1

\* C3's case: the tag 1.0.0-9 matched and the desired revision is 10.
C3_Witness ==
  /\ matchingTag # Null
  /\ matchingTag.name = <<"1", ".", "0", ".", "0", "-", "9">>
  /\ tagRevision = 10
  /\ tagName = <<"1", ".", "0", ".", "0", "-", "1", "0">>

\* The early-abort cases of a run: an all-zeros version, a matching tag on the
\* current commit, a matching tag with the desired name.
AbortCase ==
  \/ version \in ZeroVersions
  \/ matchingTag # Null /\ matchingTag.sha = contextSha
  \/ /\ matchingTag # Null
     /\ tagRevision # 0
     /\ matchingTag.name = TagName(tagFormat, version, tagRevision)

\* C4: a finished run whose version is all zeros, or whose matching tag is on
\* the current commit, or whose matching tag has the desired name, has not
\* failed, has set the version output and no tag or release output, and has
\* made no create call.
C4_AbortsSucceed ==
  (pc = "done" /\ version # <<>> /\ AbortCase) =>
    /\ failed = ""
    /\ "version" \in DOMAIN outputs
    /\ outputs["version"] = version
    /\ DOMAIN outputs \cap TagOutputs = {}
    /\ ~MadeCreateCall
    /\ tagObjects = {} /\ releases = {} /\ tagRef = Null

\* C4's case: the matching tag has the desired name, is on another commit, and
\* the run ended.
C4_Witness ==
  /\ pc = "done"
  /\ matchingTag # Null
  /\ matchingTag.sha # contextSha
  /\ matchingTag.name = tagName
  /\ failed = ""

\* C5: at the end of every run, tag_name, tag_sha, tag_revision and tag_uri are
\* set (to this run's tag) exactly when the run created the tag, and
\* release_uri exactly when it created the release.
C5_OutputsIffCreated ==
  pc = "done" =>
    /\ \A k \in {"tag_name", "tag_revision", "tag_sha", "tag_uri"} :
         (k \in DOMAIN outputs) <=> TagCreated
    /\ ("release_uri" \in DOMAIN outputs) <=> ReleaseCreated
    /\ TagCreated => outputs["tag_name"] = tagName

\* C6: after the search, the matching tag is null when no fetched tag's
\* trimmed, lower-cased name is wholly an instance of the tag format, and
\* otherwise it is the first such tag of the list, with its name and commit.
C6_FirstMatch ==
  Searched =>
    IF \A i \in DOMAIN tags : ~NameMatches(tags[i].name)
    THEN matchingTag = Null
    ELSE /\ matchingTag # Null
         /\ \E i \in DOMAIN tags :
              /\ NameMatches(tags[i].name)
              /\ \A j \in 1..(i - 1) : ~NameMatches(tags[j].name)
              /\ matchingTag.name = tags[i].name
              /\ matchingTag.sha = tags[i].sha

\* C6's case: v1.0.0-rc comes first and is passed over, " V1.0.0 " matches
\* v{version} for 1.0.0.
C6_Witness ==
  /\ Searched
  /\ tagFormat = FmtV
  /\ Len(tags) = 2
  /\ tags[1].name = <<"v", "1", ".", "0", ".", "0", "-", "r", "c">>
  /\ matchingTag # Null
  /\ matchingTag.name = <<" ", "V", "1", ".", "0", ".", "0", " ">>

\* C7 as stated: every finished run without a commit SHA that got past the
\* version and fetched the tags has failed with the missing-commit error and
\* made no create call.
C7_MissingShaAlwaysFails ==
  (pc = "done" /\ contextSha = NoSha /\ Searched) =>
    failed = "MissingCommitError" /\ ~MadeCreateCall

\* C7 amended: every finished run without a commit SHA that fetched the tags
\* has made no create call, and has failed with the missing-commit error
\* unless a matching tag already has the desired name, in which case it has
\* ended without failure.
C7_MissingShaFails ==
  (pc = "done" /\ contextSha = NoSha /\ Searched) =>
    /\ ~MadeCreateCall
    /\ tagObjects = {} /\ releases = {} /\ repoTags = tags
    /\ IF matchingTag # Null /\ matchingTag.name = TagName(tagFormat, version, tagRevision)
       THEN failed = ""
       ELSE failed = "MissingCommitError"

\* C7's case: no commit SHA, a matching tag with another name, the run failed.
C7_Witness ==
  /\ pc = "done"
  /\ contextSha = NoSha
  /\ matchingTag # Null
  /\ matchingTag.name # tagName
  /\ failed = "MissingCommitError"

\* One line of the changelog: "* <message>", and " (<login>)" when the login
\* is known.
BulletLine(commit) ==
  <<"*", " ">> \o commit.message \o
  (IF commit.login # <<>> THEN <<" ", "(">> \o commit.login \o <<")">> ELSE <<>>)

\* The lines of the commits, oldest first, joined by newlines.
RECURSIVE BulletList(_)
BulletList(commits) ==
  IF Len(commits) = 1 THEN BulletLine(commits[1])
  ELSE BulletList(SubSeq(commits, 1, Len(commits) - 1)) \o <<"\n">>
       \o BulletLine(commits[Len(commits)])

\* The comparison was from the first fetched tag to the current commit.
ComparedFromFirstTag ==
  /\ compared # Null
  /\ compared.returned
  /\ compared.base = tags[1].name
  /\ compared.head = contextSha

\* C8 as stated: the tag message is "Initial tag" when the fetched tag list is
\* empty; otherwise it is a non-empty bulleted list, one line per commit of the
\* comparison from the first fetched tag to the current commit.
C8_BulletedWheneverTagged ==
  tagMessage # <<>> =>
    IF tags = <<>>
    THEN tagMessage = InitialTag /\ compared = Null
    ELSE /\ ComparedFromFirstTag
         /\ compared.commits # <<>>
         /\ tagMessage = BulletList(compared.commits)

\* C8 amended: the tag message is "Initial tag" when the fetched tag list is
\* empty or the comparison from the first fetched tag to the current commit
\* returns no commits; otherwise it is the bulleted list of the commits of that
\* comparison, oldest first.
C8_Changelog ==
  tagMessage # <<>> =>
    IF tags = <<>>
    THEN tagMessage = InitialTag /\ compared = Null
    ELSE /\ ComparedFromFirstTag
         /\ IF compared.commits = <<>>
            THEN tagMessage = InitialTag
            ELSE tagMessage = BulletList(compared.commits) /\ tagMessage # InitialTag

\* C8's case: the matching tag is not the first tag, the comparison is from
\* the first tag, and two commits are listed oldest first.
C8_Witness ==
  /\ Len(tags) = 2
  /\ matchingTag # Null
  /\ matchingTag.name = tags[2].name
  /\ compared # Null
  /\ compared.base = tags[1].name
  /\ Len(compared.commits) = 2
  /\ compared.commits[1] # compared.commits[2]
  /\ tagMessage = BulletLine(compared.commits[1]) \o <<"\n">>
                    \o BulletLine(compared.commits[2])

FiveCalls == <<"listTags", "compareCommits", "createTag", "createRef", "createRelease">>

FourCalls == <<"listTags", "createTag", "createRef", "createRelease">>

\* C9 as stated: every run that created a release made exactly the five calls
\* list tags, compare commits, create tag object, create reference, create
\* release, in this order.
C9_AlwaysFiveCalls ==
  (pc = "done" /\ ReleaseCreated) => calls = FiveCalls

\* C9 amended: every run that created a release made, in this order, the calls
\* list tags, compare commits, create tag object, create reference, create
\* release when the fetched tag list was not empty, and the same calls without
\* compare commits when it was empty; a call is made only when the run awaits
\* no other.
C9_CallSequence ==
  /\ (pc = "done" /\ ReleaseCreated) =>
       calls = IF tags = <<>> THEN FourCalls ELSE FiveCalls
  /\ pc \notin {"start", "done"} => calls # <<>> /\ calls[Len(calls)] = pc

\* C9's case: a release created from an empty tag list, with four calls.
C9_Witness ==
  /\ pc = "done"
  /\ ReleaseCreated
  /\ tags = <<>>
  /\ calls = FourCalls

\* The call each remote error kind comes from.
FailedCall ==
  CASE failed = "TagFetchError" -> "listTags"
    [] failed = "ChangelogError" -> "compareCommits"
    [] failed = "TagCreationError" -> "createTag"
    [] failed = "ReferenceCreationError" -> "createRef"
    [] failed = "ReleaseCreationError" -> "createRelease"
    [] OTHER -> "none"

\* C10: a run makes each remote call at most once; create reference only after
\* create tag object succeeded and create release only after create reference
\* succeeded; a failed call ends the run in failure with no further call; and
\* what was created stays (after a failed create reference the tag object is
\* there and no release is).
C10_NoRetryNoRollback ==
  /\ \A i, j \in DOMAIN calls : i # j => calls[i] # calls[j]
  /\ (\E i \in DOMAIN calls : calls[i] = "createRef") =>
       tag # Null /\ \E o \in tagObjects : o.sha = tag.sha /\ o.tag = tagName
  /\ (\E i \in DOMAIN calls : calls[i] = "createRelease") =>
       tagRef # Null /\ RefExists(tagName)
  /\ FailedCall # "none" => pc = "done" /\ calls[Len(calls)] = FailedCall
  /\ failed = "ReferenceCreationError" => tagRef = Null /\ ~ReleaseCreated
  /\ failed = "ReleaseCreationError" => RefExists(tagName) /\ ~ReleaseCreated

\* C10's case: create reference failed after create tag object succeeded; the
\* tag object is there and no release is.
C10_Witness ==
  /\ pc = "done"
  /\ failed = "ReferenceCreationError"
  /\ \E o \in tagObjects : o.sha = tag.sha
  /\ releases = {}

====
